---- MODULE Spec2Model ----
(***************************************************************************)
(* Model of sdk/internal-shared/mapper/chain.go: the value-driven chain    *)
(* search (Func.Chain / Func.chain), the predicate-driven leaf search      *)
(* (Func.ChainInputSet / Func.inputSet), ChainTarget and Chain.Call, one   *)
(* execution or two at once.                                               *)
(*                                                                         *)
(* A Type is identified with its Key (a number in Types).  A *Func is an   *)
(* identity (a number): 0 is the target of Func.Chain and ChainInputSet,   *)
(* 1..N are the other library entries.  mappers is the library, which may  *)
(* hold the target; ChainTarget takes each entry as target.  sig[f] holds  *)
(* the fields of the Func: Args (as the set of its argument types: neither *)
(* search reads the order or the multiplicity), Out and Values.  A value   *)
(* is represented by its type.                                             *)
(***************************************************************************)
EXTENDS Integers, Sequences, FiniteSets, TLC

NumTypes == 3
MaxArgs == 2
MaxLib == 3
MaxValues == 1
MaxRaceLib == 2

Types == 1..NumTypes

ArgSets == {a \in SUBSET Types : Cardinality(a) <= MaxArgs}


VARIABLES
    op,         \* the entry point exercised: "Chain", "ChainTarget", "ChainInputSet"
    sig,        \* the Funcs: sig[f] = [args, out, vals]
    mappers,    \* the library, a sequence of Funcs
    input,      \* the values the caller passes
    check,      \* the caller's predicate on types, as the set it accepts
    pc,         \* position of the caller
    target,     \* receiver f of the running Func.Chain
    values,     \* Func.Chain's local values
    stack,      \* activation records of Func.chain, innermost last
    chainSet,   \* chainSet map shared by all activations
    pendingSet, \* pendingSet map shared by all activations
    outcome,    \* what Func.Chain returned
    ti,         \* ChainTarget's loop index
    attempts,   \* history: (mapper, err == nil) of every m.Chain call ChainTarget made
    found,      \* what ChainTarget returned
    leaf,       \* what ChainInputSet returned
    c,          \* the Chain object: [funcs, values]
    ci,         \* Chain.Call's loop index
    called,     \* history: the Funcs Chain.Call has invoked, in order
    callRet,    \* what Chain.Call returned
    firstErr,   \* history: the first error an activation of Func.chain made
    tried,      \* history: per activation, the mappers the inner loop has
                \* passed for the current missing type, and why
    commits,    \* history: the mappers that satisfied a missing type
    pool0,      \* history: c.values when Chain.Call began
    prepared,   \* history: the values each Func of the Call was prepared with
    results,    \* history: the results of the Funcs of the Call (0: invalid)
    pools,      \* two Chain.Call executions: the values field of each Chain
    call        \* two Chain.Call executions: each one's receiver, position,
                \* locals and history

vars == <<op, sig, mappers, input, check, pc, target, values, stack, chainSet,
          pendingSet, outcome, ti, attempts, found, leaf, c, ci, called, callRet,
          firstErr, tried, commits, pool0, prepared, results, pools, call>>

inputs == <<op, sig, mappers, input, check>>
searchVars == <<target, values, stack, chainSet, pendingSet, outcome>>
targetVars == <<ti, attempts, found>>
callVars == <<c, ci, called, callRet>>
searchHist == <<firstErr, tried, commits>>
callHist == <<pool0, prepared, results>>
raceVars == <<pools, call>>

----------------------------------------------------------------------------
(* Helpers *)

TypesOf(vs) == {vs[i] : i \in DOMAIN vs}

Range(s) == {s[i] : i \in DOMAIN s}

RECURSIVE SetToSeq(_)
SetToSeq(S) ==
    IF S = {} THEN <<>>
    ELSE LET x == CHOOSE y \in S : \A z \in S : y <= z
         IN <<x>> \o SetToSeq(S \ {x})

(* The value lists a caller may pass: at most MaxValues values, of distinct
   types. *)
ValueSeqs == {SetToSeq(S) : S \in {T \in SUBSET Types : Cardinality(T) <= MaxValues}}

(* f.args(values, missing): the argument types of f that no value matches. *)
MissingArgs(f, vs) == sig[f].args \ TypesOf(vs)

(* mapperByOut with each list built by prepending instead of appending. *)
mapperByOut_Prepend(key) ==
    LET ms == SelectSeq(mappers, LAMBDA m : sig[m].out = key)
    IN [i \in 1..Len(ms) |-> ms[Len(ms) + 1 - i]]

(* mapperByOut[key]: the library entries whose Out has that key, in library
   order. *)
mapperByOut(key) == SelectSeq(mappers, LAMBDA m : sig[m].out = key)

NoOutcome == [kind |-> "none", funcs |-> <<>>, err |-> 0]
NoChain == [funcs |-> <<>>, values |-> <<>>]
NoLeaf == [nil |-> TRUE, types |-> {}, visited |-> {}, list |-> <<>>]
NoErr == [t |-> 0, depth |-> 0]

----------------------------------------------------------------------------
(* Func.Chain and Func.chain *)

Frame(f, ch, miss) == [f |-> f, todo |-> miss, t |-> 0, j |-> 0, chain |-> ch]

Top == stack[Len(stack)]

(* History records: a mapper the inner loop passed without taking it, and a
   mapper that satisfied missing type fr.t of activation fr after the
   mappers of before were passed. *)
Passed(m, why) == [m |-> m, why |-> why]

Commit(fr, m, before) == [f |-> fr.f, t |-> fr.t, m |-> m, before |-> before]

(* The error made at line 286 for type t, kept when it is the first. *)
NoteErr(t) == IF firstErr = NoErr THEN [t |-> t, depth |-> Len(stack)] ELSE firstErr

(* What Func.Chain makes of chain's result. *)
ChainResult(ok, ch, e) ==
    IF ok THEN [kind |-> "chain", funcs |-> ch, err |-> 0]
          ELSE [kind |-> "err", funcs |-> <<>>, err |-> e]

(* ReturnTo where the caller of a failed activation returns the callee's
   error at once, and so does every activation below it. *)
ReturnTo_PropagateErr(rest, ok, ch, e) ==
    IF rest = <<>> \/ ~ok
    THEN /\ stack' = <<>>
         /\ outcome' = ChainResult(ok, ch, e)
         /\ c' = IF ok THEN [funcs |-> ch, values |-> values] ELSE NoChain
         /\ pc' = "built"
         /\ tried' = <<>>
         /\ UNCHANGED commits
    ELSE /\ stack' = [rest EXCEPT ![Len(rest)] = [@ EXCEPT !.chain = ch, !.t = 0, !.j = 0]]
         /\ tried' = [SubSeq(tried, 1, Len(rest)) EXCEPT ![Len(rest)] = <<>>]
         /\ commits' = commits \cup {Commit(rest[Len(rest)], Top.f, tried[Len(rest)])}
         /\ UNCHANGED <<outcome, c, pc>>

(* An activation returns (ch, nil) or (nil, error for type e) to the
   activation below it, or to Func.Chain when it is the outermost one.  The
   caller takes nextChain and goes on with its next missing type, or moves
   to its next mapper. *)
ReturnTo(rest, ok, ch, e) ==
    IF rest = <<>>
    THEN /\ stack' = <<>>
         /\ outcome' = ChainResult(ok, ch, e)
         /\ c' = IF ok THEN [funcs |-> ch, values |-> values] ELSE NoChain
         /\ pc' = "built"
         /\ tried' = <<>>
         /\ UNCHANGED commits
    ELSE /\ stack' = [rest EXCEPT ![Len(rest)] =
                        IF ok THEN [@ EXCEPT !.chain = ch, !.t = 0, !.j = 0]
                              ELSE [@ EXCEPT !.j = @ + 1]]
         /\ tried' = [SubSeq(tried, 1, Len(rest)) EXCEPT ![Len(rest)] =
                        IF ok THEN <<>> ELSE Append(@, Passed(Top.f, "failed"))]
         /\ commits' = IF ok THEN commits \cup {Commit(rest[Len(rest)], Top.f, tried[Len(rest)])}
                             ELSE commits
         /\ UNCHANGED <<outcome, c, pc>>

(* values = append(values, f.Values...) *)
Augmented(f, vs) == vs \o sig[f].vals

(* ChainBegin without line 43: the target's bound values are not added. *)
ChainBegin_NoBoundValues(f, vs) ==
    LET missing == MissingArgs(f, vs)
    IN /\ target' = f
       /\ values' = vs
       /\ chainSet' = {}
       /\ firstErr' = NoErr
       /\ commits' = {}
       /\ IF missing = {}
          THEN /\ outcome' = [kind |-> "chain", funcs |-> <<f>>, err |-> 0]
               /\ c' = [funcs |-> <<f>>, values |-> vs]
               /\ pc' = "built"
               /\ stack' = <<>>
               /\ pendingSet' = {}
               /\ tried' = <<>>
          ELSE /\ outcome' = NoOutcome
               /\ c' = NoChain
               /\ pc' = "search"
               /\ stack' = <<Frame(f, <<>>, missing)>>
               /\ pendingSet' = {f}
               /\ tried' = << <<>> >>

(* Func.Chain up to its call of f.chain. *)
ChainBegin(f, vs) ==
    LET vals == Augmented(f, vs)
        missing == MissingArgs(f, vals)
    IN /\ target' = f
       /\ values' = vals
       /\ chainSet' = {}
       /\ firstErr' = NoErr
       /\ commits' = {}
       /\ IF missing = {}
          THEN /\ outcome' = [kind |-> "chain", funcs |-> <<f>>, err |-> 0]
               /\ c' = [funcs |-> <<f>>, values |-> vals]
               /\ pc' = "built"
               /\ stack' = <<>>
               /\ pendingSet' = {}
               /\ tried' = <<>>
          ELSE /\ outcome' = NoOutcome
               /\ c' = NoChain
               /\ pc' = "search"
               /\ stack' = <<Frame(f, <<>>, missing)>>
               /\ pendingSet' = {f}
               /\ tried' = << <<>> >>

Chain ==
    /\ pc = "start"
    /\ op = "Chain"
    /\ ChainBegin(0, input)
    /\ UNCHANGED <<inputs, targetVars, leaf, ci, called, callRet, callHist, raceVars>>

(* NextMissing where a missing type without producers is passed over instead
   of failing the activation. *)
NextMissing_SkipUnproduced ==
    /\ pc = "search"
    /\ Top.t = 0
    /\ \E t \in Top.todo :
        LET ms == mapperByOut(t)
        IN \/ /\ \/ Len(ms) = 0
                 \/ \E i \in DOMAIN ms : ms[i] \in chainSet
              /\ stack' = [stack EXCEPT ![Len(stack)].todo = @ \ {t}]
              /\ UNCHANGED <<pendingSet, outcome, c, pc, searchHist>>
           \/ /\ Len(ms) > 0
              /\ \A i \in DOMAIN ms : ms[i] \notin chainSet
              /\ stack' = [stack EXCEPT ![Len(stack)].todo = @ \ {t},
                                        ![Len(stack)].t = t,
                                        ![Len(stack)].j = 1]
              /\ UNCHANGED <<pendingSet, outcome, c, pc, searchHist>>
    /\ UNCHANGED <<inputs, target, values, chainSet, targetVars, leaf, ci, called, callRet, callHist, raceVars>>

(* MISSING_LOOP takes the next missing type, in the map's iteration order. *)
NextMissing ==
    /\ pc = "search"
    /\ Top.t = 0
    /\ \E t \in Top.todo :
        LET ms == mapperByOut(t)
            rest == SubSeq(stack, 1, Len(stack) - 1)
        IN \/ /\ Len(ms) = 0
              /\ pendingSet' = pendingSet \ {Top.f}
              /\ firstErr' = NoteErr(t)
              /\ ReturnTo(rest, FALSE, <<>>, t)
           \/ /\ Len(ms) > 0
              /\ \E i \in DOMAIN ms : ms[i] \in chainSet
              /\ stack' = [stack EXCEPT ![Len(stack)].todo = @ \ {t}]
              /\ UNCHANGED <<pendingSet, outcome, c, pc, searchHist>>
           \/ /\ Len(ms) > 0
              /\ \A i \in DOMAIN ms : ms[i] \notin chainSet
              /\ stack' = [stack EXCEPT ![Len(stack)].todo = @ \ {t},
                                        ![Len(stack)].t = t,
                                        ![Len(stack)].j = 1]
              /\ UNCHANGED <<pendingSet, outcome, c, pc, searchHist>>
    /\ UNCHANGED <<inputs, target, values, chainSet, targetVars, leaf, ci, called, callRet, callHist, raceVars>>

(* TryMapper without the pendingSet test of the inner loop; the recursion is
   cut off one activation past the depth the search can reach. *)
TryMapper_NoPendingSkip ==
    /\ pc = "search"
    /\ Top.t # 0
    /\ Top.j <= Len(mapperByOut(Top.t))
    /\ Len(stack) <= Len(mappers) + 1
    /\ LET m == mapperByOut(Top.t)[Top.j]
       IN \/ /\ MissingArgs(m, values) = {}
             /\ chainSet' = chainSet \cup {m}
             /\ stack' = [stack EXCEPT ![Len(stack)].chain = Append(@, m),
                                       ![Len(stack)].t = 0,
                                       ![Len(stack)].j = 0]
             /\ tried' = [tried EXCEPT ![Len(stack)] = <<>>]
             /\ commits' = commits \cup {Commit(Top, m, tried[Len(stack)])}
             /\ UNCHANGED pendingSet
          \/ /\ MissingArgs(m, values) # {}
             /\ pendingSet' = pendingSet \cup {m}
             /\ stack' = Append(stack, Frame(m, Top.chain, MissingArgs(m, values)))
             /\ tried' = Append(tried, <<>>)
             /\ UNCHANGED <<chainSet, commits>>
    /\ UNCHANGED <<inputs, target, values, outcome, c, pc, targetVars, leaf, ci, called, callRet,
                   firstErr, callHist, raceVars>>

(* The inner loop over ms: skip a pending mapper, or call m.chain. *)
TryMapper ==
    /\ pc = "search"
    /\ Top.t # 0
    /\ Top.j <= Len(mapperByOut(Top.t))
    /\ LET m == mapperByOut(Top.t)[Top.j]
       IN \/ /\ m \in pendingSet
             /\ stack' = [stack EXCEPT ![Len(stack)].j = @ + 1]
             /\ tried' = [tried EXCEPT ![Len(stack)] = Append(@, Passed(m, "pending"))]
             /\ UNCHANGED <<chainSet, pendingSet, commits>>
          \/ /\ m \notin pendingSet
             /\ MissingArgs(m, values) = {}
             /\ chainSet' = chainSet \cup {m}
             /\ stack' = [stack EXCEPT ![Len(stack)].chain = Append(@, m),
                                       ![Len(stack)].t = 0,
                                       ![Len(stack)].j = 0]
             /\ tried' = [tried EXCEPT ![Len(stack)] = <<>>]
             /\ commits' = commits \cup {Commit(Top, m, tried[Len(stack)])}
             /\ UNCHANGED pendingSet
          \/ /\ m \notin pendingSet
             /\ MissingArgs(m, values) # {}
             /\ pendingSet' = pendingSet \cup {m}
             /\ stack' = Append(stack, Frame(m, Top.chain, MissingArgs(m, values)))
             /\ tried' = Append(tried, <<>>)
             /\ UNCHANGED <<chainSet, commits>>
    /\ UNCHANGED <<inputs, target, values, outcome, c, pc, targetVars, leaf, ci, called, callRet,
                   firstErr, callHist, raceVars>>

(* NoMapper returning the error without the deferred delete. *)
NoMapper_NoUnmark ==
    /\ pc = "search"
    /\ Top.t # 0
    /\ Top.j > Len(mapperByOut(Top.t))
    /\ firstErr' = NoteErr(Top.t)
    /\ ReturnTo(SubSeq(stack, 1, Len(stack) - 1), FALSE, <<>>, Top.t)
    /\ UNCHANGED <<inputs, target, values, chainSet, pendingSet, targetVars, leaf, ci, called,
                   callRet, callHist, raceVars>>

(* No mapper of ms satisfied the missing type: "unable to map to t". *)
NoMapper ==
    /\ pc = "search"
    /\ Top.t # 0
    /\ Top.j > Len(mapperByOut(Top.t))
    /\ pendingSet' = pendingSet \ {Top.f}
    /\ firstErr' = NoteErr(Top.t)
    /\ ReturnTo(SubSeq(stack, 1, Len(stack) - 1), FALSE, <<>>, Top.t)
    /\ UNCHANGED <<inputs, target, values, chainSet, targetVars, leaf, ci, called, callRet, callHist, raceVars>>

(* Satisfied returning the chain without f appended. *)
Satisfied_NoAppend ==
    /\ pc = "search"
    /\ Top.t = 0
    /\ Top.todo = {}
    /\ pendingSet' = pendingSet \ {Top.f}
    /\ ReturnTo(SubSeq(stack, 1, Len(stack) - 1), TRUE, Top.chain, 0)
    /\ UNCHANGED firstErr
    /\ UNCHANGED <<inputs, target, values, chainSet, targetVars, leaf, ci, called, callRet, callHist, raceVars>>

(* MISSING_LOOP is over: return append(chain, f), nil. *)
Satisfied ==
    /\ pc = "search"
    /\ Top.t = 0
    /\ Top.todo = {}
    /\ pendingSet' = pendingSet \ {Top.f}
    /\ ReturnTo(SubSeq(stack, 1, Len(stack) - 1), TRUE, Append(Top.chain, Top.f), 0)
    /\ UNCHANGED firstErr
    /\ UNCHANGED <<inputs, target, values, chainSet, targetVars, leaf, ci, called, callRet, callHist, raceVars>>

----------------------------------------------------------------------------
(* ChainTarget *)

(* One iteration of the loop over mappers, up to the call of m.Chain. *)
ChainTarget ==
    /\ pc = "target"
    /\ \/ /\ ti > Len(mappers)
          /\ found' = [kind |-> "nil", funcs |-> <<>>, values |-> <<>>]
          /\ pc' = "done"
          /\ UNCHANGED <<ti, searchVars, c, searchHist>>
       \/ /\ ti <= Len(mappers)
          /\ sig[mappers[ti]].out \notin check
          /\ ti' = ti + 1
          /\ UNCHANGED <<found, pc, searchVars, c, searchHist>>
       \/ /\ ti <= Len(mappers)
          /\ sig[mappers[ti]].out \in check
          /\ ChainBegin(mappers[ti], input)
          /\ UNCHANGED <<ti, found>>
    /\ UNCHANGED <<inputs, attempts, leaf, ci, called, callRet, callHist, raceVars>>

(* ChainTargetResult returning whatever the first m.Chain call returned. *)
ChainTargetResult_IgnoreErr ==
    /\ pc = "built"
    /\ op = "ChainTarget"
    /\ attempts' = Append(attempts, [m |-> mappers[ti], ok |-> outcome.kind = "chain"])
    /\ found' = [kind |-> "chain", funcs |-> c.funcs, values |-> c.values]
    /\ pc' = "done"
    /\ UNCHANGED ti
    /\ UNCHANGED <<inputs, searchVars, leaf, c, ci, called, callRet, searchHist, callHist, raceVars>>

(* m.Chain returned: return the chain when err == nil, else go on. *)
ChainTargetResult ==
    /\ pc = "built"
    /\ op = "ChainTarget"
    /\ attempts' = Append(attempts, [m |-> mappers[ti], ok |-> outcome.kind = "chain"])
    /\ \/ /\ outcome.kind = "chain"
          /\ found' = [kind |-> "chain", funcs |-> c.funcs, values |-> c.values]
          /\ pc' = "done"
          /\ UNCHANGED ti
       \/ /\ outcome.kind = "err"
          /\ ti' = ti + 1
          /\ pc' = "target"
          /\ UNCHANGED found
    /\ UNCHANGED <<inputs, searchVars, leaf, c, ci, called, callRet, searchHist, callHist, raceVars>>

----------------------------------------------------------------------------
(* Func.ChainInputSet and Func.inputSet *)

RECURSIVE inputSet(_, _, _, _), inputSetLoop(_, _, _, _, _)

(* inputSetLoop returning, once nothing is missing, the pending map it held
   before the last mapper instead of that mapper's result. *)
inputSetLoop_StalePending(i, chk, visited, missing, pending) ==
    IF i > Len(mappers)
    THEN [nil |-> TRUE, types |-> {}, visited |-> visited]
    ELSE LET m == mappers[i]
             key == sig[m].out
         IN IF m \in visited \/ key \notin missing
            THEN inputSetLoop(i + 1, chk, visited, missing, pending)
            ELSE LET result == inputSet(m, chk, visited \cup {m}, pending)
                     after == result.visited \ {m}
                 IN IF result.nil
                    THEN inputSetLoop(i + 1, chk, after, missing, pending)
                    ELSE IF missing \ {key} = {}
                         THEN [nil |-> FALSE, types |-> pending, visited |-> after]
                         ELSE inputSetLoop(i + 1, chk, after, missing \ {key}, result.types)

(* inputSetLoop trying every unvisited mapper, whether or not its output is
   missing. *)
inputSetLoop_AnyMapper(i, chk, visited, missing, pending) ==
    IF i > Len(mappers)
    THEN [nil |-> TRUE, types |-> {}, visited |-> visited]
    ELSE LET m == mappers[i]
             key == sig[m].out
         IN IF m \in visited
            THEN inputSetLoop(i + 1, chk, visited, missing, pending)
            ELSE LET result == inputSet(m, chk, visited \cup {m}, pending)
                     after == result.visited \ {m}
                 IN IF result.nil
                    THEN inputSetLoop(i + 1, chk, after, missing, pending)
                    ELSE IF missing \ {key} = {}
                         THEN [nil |-> FALSE, types |-> result.types, visited |-> after]
                         ELSE inputSetLoop(i + 1, chk, after, missing \ {key}, result.types)

(* inputSetLoop without the delete(visited, m) after the recursive call. *)
inputSetLoop_KeepVisited(i, chk, visited, missing, pending) ==
    IF i > Len(mappers)
    THEN [nil |-> TRUE, types |-> {}, visited |-> visited]
    ELSE LET m == mappers[i]
             key == sig[m].out
         IN IF m \in visited \/ key \notin missing
            THEN inputSetLoop(i + 1, chk, visited, missing, pending)
            ELSE LET result == inputSet(m, chk, visited \cup {m}, pending)
                     after == result.visited
                 IN IF result.nil
                    THEN inputSetLoop(i + 1, chk, after, missing, pending)
                    ELSE IF missing \ {key} = {}
                         THEN [nil |-> FALSE, types |-> result.types, visited |-> after]
                         ELSE inputSetLoop(i + 1, chk, after, missing \ {key}, result.types)

(* inputSetLoop where a mapper that failed leaves the types it accepted in
   the caller's pending map. *)
inputSetLoop_LeakFailed(i, chk, visited, missing, pending) ==
    IF i > Len(mappers)
    THEN [nil |-> TRUE, types |-> {}, visited |-> visited]
    ELSE LET m == mappers[i]
             key == sig[m].out
         IN IF m \in visited \/ key \notin missing
            THEN inputSetLoop(i + 1, chk, visited, missing, pending)
            ELSE LET result == inputSet(m, chk, visited \cup {m}, pending)
                     after == result.visited \ {m}
                 IN IF result.nil
                    THEN inputSetLoop(i + 1, chk, after, missing,
                                      pending \cup (sig[m].args \cap chk))
                    ELSE IF missing \ {key} = {}
                         THEN [nil |-> FALSE, types |-> result.types, visited |-> after]
                         ELSE inputSetLoop(i + 1, chk, after, missing \ {key}, result.types)

(* The loop over mappers of inputSet, from index i on, with the visited,
   missing and pending maps as they stand.  The result carries the visited
   map as the activation leaves it. *)
inputSetLoop(i, chk, visited, missing, pending) ==
    IF i > Len(mappers)
    THEN [nil |-> TRUE, types |-> {}, visited |-> visited]
    ELSE LET m == mappers[i]
             key == sig[m].out
         IN IF m \in visited \/ key \notin missing
            THEN inputSetLoop(i + 1, chk, visited, missing, pending)
            ELSE LET result == inputSet(m, chk, visited \cup {m}, pending)
                     after == result.visited \ {m}
                 IN IF result.nil
                    THEN inputSetLoop(i + 1, chk, after, missing, pending)
                    ELSE IF missing \ {key} = {}
                         THEN [nil |-> FALSE, types |-> result.types, visited |-> after]
                         ELSE inputSetLoop(i + 1, chk, after, missing \ {key}, result.types)

inputSet(f, chk, visited, in) ==
    LET missing == {a \in sig[f].args : a \notin in /\ a \notin chk}
        pending == in \cup {a \in sig[f].args : a \in chk}
    IN IF missing = {}
       THEN [nil |-> FALSE, types |-> pending, visited |-> visited]
       ELSE inputSetLoop(1, chk, visited, missing, pending)

(* ChainInputSet: nil, or the types of the map inputSet returned. *)
ChainInputSetOf(f, chk) == inputSet(f, chk, {}, {})

(* The lists a range over a map with keys S can build. *)
Lists(S) == {l \in [1..Cardinality(S) -> S] : Range(l) = S}

ChainInputSet ==
    /\ pc = "start"
    /\ op = "ChainInputSet"
    /\ LET typeMap == ChainInputSetOf(0, check)
       IN \E result \in Lists(typeMap.types) :
             leaf' = [nil |-> typeMap.nil, types |-> typeMap.types,
                      visited |-> typeMap.visited, list |-> result]
    /\ pc' = "leafed"
    /\ UNCHANGED <<inputs, searchVars, targetVars, callVars, searchHist, callHist, raceVars>>

(* The caller supplies one value of each type of the result and builds the
   chain of the same target over the same library. *)
ChainFromLeaves ==
    /\ pc = "leafed"
    /\ ~leaf.nil
    /\ ChainBegin(0, leaf.list)
    /\ UNCHANGED <<inputs, targetVars, leaf, ci, called, callRet, callHist, raceVars>>

----------------------------------------------------------------------------
(* Chain.Call *)

Call ==
    /\ pc = "built"
    /\ op = "Chain"
    /\ outcome.kind = "chain"
    /\ pc' = "call"
    /\ ci' = 1
    /\ callRet' = [kind |-> "none", result |-> 0, err |-> 0]
    /\ pool0' = c.values
    /\ prepared' = <<>>
    /\ results' = <<>>
    /\ UNCHANGED <<inputs, searchVars, targetVars, leaf, c, called, searchHist, raceVars>>

(* CallFunc going on to the next Func after an error. *)
CallFunc_ContinueOnErr ==
    /\ pc = "call"
    /\ ci <= Len(c.funcs)
    /\ called' = Append(called, c.funcs[ci])
    /\ prepared' = Append(prepared, c.values)
    /\ \/ /\ callRet' = [kind |-> "err", result |-> 0, err |-> ci]
          /\ ci' = ci + 1
          /\ UNCHANGED <<c, pc, results>>
       \/ /\ callRet' = [callRet EXCEPT !.result = sig[c.funcs[ci]].out]
          /\ c' = [c EXCEPT !.values = Append(@, sig[c.funcs[ci]].out)]
          /\ results' = Append(results, sig[c.funcs[ci]].out)
          /\ ci' = ci + 1
          /\ UNCHANGED pc
       \/ /\ callRet' = [callRet EXCEPT !.result = 0]
          /\ results' = Append(results, 0)
          /\ ci' = ci + 1
          /\ UNCHANGED <<c, pc>>
    /\ UNCHANGED <<inputs, searchVars, targetVars, leaf, searchHist, pool0, raceVars>>

(* CallFunc taking the values appended during the Call out of c.values
   when a Func fails. *)
CallFunc_ResetOnErr ==
    /\ pc = "call"
    /\ ci <= Len(c.funcs)
    /\ called' = Append(called, c.funcs[ci])
    /\ prepared' = Append(prepared, c.values)
    /\ \/ /\ callRet' = [kind |-> "err", result |-> 0, err |-> ci]
          /\ pc' = "returned"
          /\ c' = [c EXCEPT !.values = pool0]
          /\ UNCHANGED <<ci, results>>
       \/ /\ callRet' = [callRet EXCEPT !.result = sig[c.funcs[ci]].out]
          /\ c' = [c EXCEPT !.values = Append(@, sig[c.funcs[ci]].out)]
          /\ results' = Append(results, sig[c.funcs[ci]].out)
          /\ ci' = ci + 1
          /\ UNCHANGED pc
       \/ /\ callRet' = [callRet EXCEPT !.result = 0]
          /\ results' = Append(results, 0)
          /\ ci' = ci + 1
          /\ UNCHANGED <<c, pc>>
    /\ UNCHANGED <<inputs, searchVars, targetVars, leaf, searchHist, pool0, raceVars>>

(* CallFunc appending the result without the IsValid test. *)
CallFunc_KeepInvalid ==
    /\ pc = "call"
    /\ ci <= Len(c.funcs)
    /\ called' = Append(called, c.funcs[ci])
    /\ prepared' = Append(prepared, c.values)
    /\ \/ /\ callRet' = [kind |-> "err", result |-> 0, err |-> ci]
          /\ pc' = "returned"
          /\ UNCHANGED <<c, ci, results>>
       \/ /\ callRet' = [callRet EXCEPT !.result = sig[c.funcs[ci]].out]
          /\ c' = [c EXCEPT !.values = Append(@, sig[c.funcs[ci]].out)]
          /\ results' = Append(results, sig[c.funcs[ci]].out)
          /\ ci' = ci + 1
          /\ UNCHANGED pc
       \/ /\ callRet' = [callRet EXCEPT !.result = 0]
          /\ results' = Append(results, 0)
          /\ c' = [c EXCEPT !.values = Append(@, 0)]
          /\ ci' = ci + 1
          /\ UNCHANGED pc
    /\ UNCHANGED <<inputs, searchVars, targetVars, leaf, searchHist, pool0, raceVars>>

(* One iteration: f.Prepare(c.values...).Call() fails, or returns a value
   of f's output type, or returns an invalid (nil) result. *)
CallFunc ==
    /\ pc = "call"
    /\ ci <= Len(c.funcs)
    /\ called' = Append(called, c.funcs[ci])
    /\ prepared' = Append(prepared, c.values)
    /\ \/ /\ callRet' = [kind |-> "err", result |-> 0, err |-> ci]
          /\ pc' = "returned"
          /\ UNCHANGED <<c, ci, results>>
       \/ /\ callRet' = [callRet EXCEPT !.result = sig[c.funcs[ci]].out]
          /\ c' = [c EXCEPT !.values = Append(@, sig[c.funcs[ci]].out)]
          /\ results' = Append(results, sig[c.funcs[ci]].out)
          /\ ci' = ci + 1
          /\ UNCHANGED pc
       \/ /\ callRet' = [callRet EXCEPT !.result = 0]
          /\ results' = Append(results, 0)
          /\ ci' = ci + 1
          /\ UNCHANGED <<c, pc>>
    /\ UNCHANGED <<inputs, searchVars, targetVars, leaf, searchHist, pool0, raceVars>>

(* Chain.Out: the output type of the last Func of the chain. *)
Out(ch) == sig[ch.funcs[Len(ch.funcs)]].out

CallReturn ==
    /\ pc = "call"
    /\ ci > Len(c.funcs)
    /\ callRet' = [callRet EXCEPT !.kind = "ok"]
    /\ pc' = "returned"
    /\ UNCHANGED <<inputs, searchVars, targetVars, leaf, c, ci, called, searchHist, callHist, raceVars>>

----------------------------------------------------------------------------
(* Two executions of Chain.Call at once.  Each is the loop of Chain.Call
   taken apart at its reads and writes of c.values: the read that hands the
   values to Prepare, the read of append's operand, and the assignment of
   append's result.  A value in a pool is tagged with the execution whose
   Func returned it (0: it was there when Func.Chain built the Chain). *)

Calls == {1, 2}

Tagged(vs, p) == [i \in DOMAIN vs |-> [type |-> vs[i], by |-> p]]

NewCall(on) ==
    [on |-> on, i |-> 1, at |-> "prepare", result |-> 0, operand |-> <<>>,
     ret |-> "none", prepared |-> <<>>, results |-> <<>>]

(* The caller starts two executions: both on the Chain Func.Chain returned,
   or the second on a Chain of its own, with the same Funcs and a values
   slice of its own. *)
Go ==
    /\ pc = "built"
    /\ outcome.kind = "chain"
    /\ pc' = "race"
    /\ pools' = <<Tagged(c.values, 0), Tagged(c.values, 0)>>
    /\ \E on \in {1, 2} : call' = <<NewCall(1), NewCall(on)>>
    /\ UNCHANGED <<inputs, searchVars, targetVars, leaf, callVars, searchHist, callHist>>

(* result, err = f.Prepare(c.values...).Call(), and the return on err. *)
RacePrepare ==
    /\ pc = "race"
    /\ \E p \in Calls :
        /\ call[p].at = "prepare"
        /\ call[p].i <= Len(c.funcs)
        /\ LET f == c.funcs[call[p].i]
               me == [call[p] EXCEPT !.prepared = Append(@, pools[call[p].on])]
           IN \/ call' = [call EXCEPT ![p] = [me EXCEPT !.at = "done", !.ret = "err",
                                                        !.result = 0]]
              \/ call' = [call EXCEPT ![p] = [me EXCEPT !.at = "read",
                                                        !.result = sig[f].out,
                                                        !.results = Append(@, sig[f].out)]]
              \/ call' = [call EXCEPT ![p] = [me EXCEPT !.i = @ + 1, !.result = 0,
                                                        !.results = Append(@, 0)]]
    /\ UNCHANGED <<inputs, searchVars, targetVars, leaf, callVars, searchHist, callHist,
                   pc, pools>>

(* append(c.values, result): the operand is read. *)
RaceRead ==
    /\ pc = "race"
    /\ \E p \in Calls :
        /\ call[p].at = "read"
        /\ call' = [call EXCEPT ![p].at = "write", ![p].operand = pools[call[p].on]]
    /\ UNCHANGED <<inputs, searchVars, targetVars, leaf, callVars, searchHist, callHist,
                   pc, pools>>

(* RaceWrite assigning to the values of the first Chain, whatever the
   receiver is. *)
RaceWrite_OnePool ==
    /\ pc = "race"
    /\ \E p \in Calls :
        /\ call[p].at = "write"
        /\ pools' = [pools EXCEPT ![1] =
                        Append(call[p].operand, [type |-> call[p].result, by |-> p])]
        /\ call' = [call EXCEPT ![p].at = "prepare", ![p].i = @ + 1, ![p].operand = <<>>]
    /\ UNCHANGED <<inputs, searchVars, targetVars, leaf, callVars, searchHist, callHist, pc>>

(* c.values = append(...): the result of append is assigned. *)
RaceWrite ==
    /\ pc = "race"
    /\ \E p \in Calls :
        /\ call[p].at = "write"
        /\ pools' = [pools EXCEPT ![call[p].on] =
                        Append(call[p].operand, [type |-> call[p].result, by |-> p])]
        /\ call' = [call EXCEPT ![p].at = "prepare", ![p].i = @ + 1, ![p].operand = <<>>]
    /\ UNCHANGED <<inputs, searchVars, targetVars, leaf, callVars, searchHist, callHist, pc>>

(* return result, nil *)
RaceReturn ==
    /\ pc = "race"
    /\ \E p \in Calls :
        /\ call[p].at = "prepare"
        /\ call[p].i > Len(c.funcs)
        /\ call' = [call EXCEPT ![p].at = "done", ![p].ret = "ok"]
    /\ UNCHANGED <<inputs, searchVars, targetVars, leaf, callVars, searchHist, callHist,
                   pc, pools>>

----------------------------------------------------------------------------
(* Inputs.  Types are interchangeable names, so the target of Func.Chain and
   of ChainInputSet takes its argument types to be 1..k.  The output type of
   a target that is not a library entry is read by Chain.Out alone, and is
   fixed. *)

TargetArgSets == {1..k : k \in 0..MaxArgs}

TargetSigs(outs, bound) ==
    {[args |-> a, out |-> o, vals |-> v] : a \in TargetArgSets, o \in outs, v \in bound}

LibSigs == {[args |-> a, out |-> o, vals |-> <<>>] : a \in ArgSets, o \in Types}

(* The sequence 1..n with the target 0 put in at position p. *)
WithTarget(n, p) ==
    [i \in 1..(n + 1) |-> IF i < p THEN i ELSE IF i = p THEN 0 ELSE i - 1]

(* A target whose bound values are drawn from bound, and a library of at
   most MaxLib entries, of which the target is one or not. *)
InitFuncs(bound) ==
    \/ \E n \in 0..MaxLib : \E ts \in TargetSigs({NumTypes}, bound) :
          \E ls \in [1..n -> LibSigs] :
            /\ sig = [i \in 0..n |-> IF i = 0 THEN ts ELSE ls[i]]
            /\ mappers = [i \in 1..n |-> i]
    \/ \E n \in 0..(MaxLib - 1) : \E ts \in TargetSigs(Types, bound) :
          \E ls \in [1..n -> LibSigs] : \E p \in 1..(n + 1) :
            /\ sig = [i \in 0..n |-> IF i = 0 THEN ts ELSE ls[i]]
            /\ mappers = WithTarget(n, p)

(* A library of at most MaxLib entries, each of them a target in turn. *)
InitLibrary ==
    \E n \in 0..MaxLib : \E ls \in [1..n -> LibSigs] :
        /\ sig = ls
        /\ mappers = [i \in 1..n |-> i]

InitRest ==
    /\ target = 0
    /\ values = <<>>
    /\ stack = <<>>
    /\ chainSet = {}
    /\ pendingSet = {}
    /\ outcome = NoOutcome
    /\ ti = 1
    /\ attempts = <<>>
    /\ found = [kind |-> "none", funcs |-> <<>>, values |-> <<>>]
    /\ leaf = NoLeaf
    /\ c = NoChain
    /\ ci = 0
    /\ called = <<>>
    /\ callRet = [kind |-> "none", result |-> 0, err |-> 0]
    /\ firstErr = NoErr
    /\ tried = <<>>
    /\ commits = {}
    /\ pool0 = <<>>
    /\ prepared = <<>>
    /\ results = <<>>
    /\ pools = <<>>
    /\ call = <<>>

(* Func.Chain on a target, a library and values. *)
Init ==
    /\ op = "Chain"
    /\ InitFuncs(ValueSeqs)
    /\ input \in ValueSeqs
    /\ check = {}
    /\ pc = "start"
    /\ InitRest

Search == NextMissing \/ TryMapper \/ NoMapper \/ Satisfied

Next == Chain \/ Search

Spec == Init /\ [][Next]_vars

(* The same under the scheduling of a sequential program: a call that can
   take a step takes it. *)
InitFair ==
    /\ op = "Chain"
    /\ InitFuncs({<<>>})
    /\ input = <<>>
    /\ check = {}
    /\ pc = "start"
    /\ InitRest

SpecFair == InitFair /\ [][Next]_vars /\ WF_vars(Next)

(* Func.Chain on a target without bound values, then Chain.Call on the
   chain it returned. *)
InitCall ==
    /\ op = "Chain"
    /\ InitFuncs({<<>>})
    /\ input \in ValueSeqs
    /\ check = {}
    /\ pc = "start"
    /\ InitRest

NextCall == Chain \/ Search \/ Call \/ CallFunc \/ CallReturn

SpecCall == InitCall /\ [][NextCall]_vars

(* Func.Chain on a target without bound values and a library of at most
   MaxRaceLib entries, then two executions of Chain.Call at once. *)
InitRace ==
    /\ op = "Chain"
    /\ InitFuncs({<<>>})
    /\ Len(mappers) <= MaxRaceLib
    /\ input \in ValueSeqs
    /\ check = {}
    /\ pc = "start"
    /\ InitRest

NextRace == Chain \/ Search \/ Go \/ RacePrepare \/ RaceRead \/ RaceWrite \/ RaceReturn

SpecRace == InitRace /\ [][NextRace]_vars

(* ChainTarget on a predicate, a library and values. *)
InitTarget ==
    /\ op = "ChainTarget"
    /\ InitLibrary
    /\ input \in ValueSeqs
    /\ check \in SUBSET Types
    /\ pc = "target"
    /\ InitRest

NextTarget == ChainTarget \/ ChainTargetResult \/ Search

SpecTarget == InitTarget /\ [][NextTarget]_vars

(* ChainInputSet on a target, a library and a predicate, then Func.Chain on
   values of the types it returned. *)
InitLeaf ==
    /\ op = "ChainInputSet"
    /\ InitFuncs({<<>>})
    /\ input = <<>>
    /\ check \in SUBSET Types
    /\ pc = "start"
    /\ InitRest

NextLeaf == ChainInputSet \/ ChainFromLeaves \/ Search

SpecLeaf == InitLeaf /\ [][NextLeaf]_vars

----------------------------------------------------------------------------
(* Properties of the chain Func.Chain returns *)

Built == pc = "built" /\ outcome.kind = "chain"

Failed == pc = "built" /\ outcome.kind = "err"

(* C1: a chain returned by Func.Chain contains no Func more than once. *)
C1_NoInvocableTwice ==
    Built => \A i, j \in DOMAIN outcome.funcs :
                i # j => outcome.funcs[i] # outcome.funcs[j]

(* C2: in a chain returned by Func.Chain, every argument type of the Func at
   position i that the values do not match is the output type of a library
   Func at an earlier position. *)
C2_ProducersFirst ==
    Built => \A i \in DOMAIN outcome.funcs :
                \A t \in MissingArgs(outcome.funcs[i], values) :
                    \E j \in 1..(i - 1) : sig[outcome.funcs[j]].out = t

(* Mapper a requires a type only mapper b produces, b requires a type only
   a produces, the values match neither type, and a is the target or the
   target requires the type a produces. *)
CyclicCase ==
    \E a, b \in Range(mappers) : \E ta, tb \in Types :
        /\ a # b
        /\ a = 0 \/ ta \in MissingArgs(0, Augmented(0, input))
        /\ mapperByOut(ta) = <<a>>
        /\ tb \in MissingArgs(a, Augmented(0, input))
        /\ mapperByOut(tb) = <<b>>
        /\ ta \in MissingArgs(b, Augmented(0, input))

(* C3: Func.Chain returns: the search never nests deeper than the target
   and one activation per library entry, every call ends, and on a cyclic
   pair of mappers the target depends on it ends with an error and no
   chain. *)
C3_Terminates ==
    /\ [](Len(stack) <= Len(mappers) + 1)
    /\ <>(pc = "built")
    /\ [](pc = "built" /\ CyclicCase => outcome.kind = "err" /\ c = NoChain)

C3_Witness == Failed /\ CyclicCase /\ Len(mappers) = 2

----------------------------------------------------------------------------
(* Properties of ChainInputSet *)

(* C4: when ChainInputSet returns a non-nil set for a target, a library and
   a predicate, Func.Chain on the same target and library, with exactly one
   value of each type of the set, returns a chain. *)
C4_LeavesSuffice ==
    op = "ChainInputSet" /\ pc = "built" => outcome.kind = "chain"

C4_Witness ==
    /\ op = "ChainInputSet"
    /\ Built
    /\ Cardinality(leaf.types) = 2
    /\ Len(outcome.funcs) >= 3
    /\ TypesOf(values) = leaf.types

(* C5 as stated: no proper subset of a non-nil result of ChainInputSet is a
   set of types from which the target resolves through the library. *)
C5_Minimal ==
    pc = "leafed" /\ ~leaf.nil =>
        \A S \in SUBSET leaf.types :
            S # leaf.types => ChainInputSetOf(0, S).nil

(* C5 as the code has it: the result is the leaf set of the first
   resolution found in library order, not a minimal one.  It contains every
   accepted argument type of the target, and each of its types is accepted
   and is an argument type of the target or of a library Func whose output
   type is not accepted. *)
C5_FirstFitLeaves ==
    pc = "leafed" /\ ~leaf.nil =>
        /\ sig[0].args \cap check \subseteq leaf.types
        /\ \A t \in leaf.types :
              /\ t \in check
              /\ \/ t \in sig[0].args
                 \/ \E m \in Range(mappers) :
                       t \in sig[m].args /\ sig[m].out \notin check

C5_Witness ==
    /\ pc = "leafed"
    /\ ~leaf.nil
    /\ \E S \in SUBSET leaf.types : S # leaf.types /\ ~ChainInputSetOf(0, S).nil
    /\ \E t \in leaf.types : t \notin sig[0].args

(* The types that can be had from the types of P: those of P and, again and
   again, the output types of the library Funcs all of whose argument types
   can be had. *)
RECURSIVE Producible(_)
Producible(P) ==
    LET Q == P \cup {sig[m].out : m \in {x \in Range(mappers) : sig[x].args \subseteq P}}
    IN IF Q = P THEN P ELSE Producible(Q)

(* Some set of accepted types resolves the target through the library. *)
LeafSetExists == sig[0].args \subseteq Producible(check)

(* A type the target requires is not accepted and its only producer a
   requires a type that is not accepted and whose only producer b requires
   the output of a. *)
CyclicLeafCase ==
    \E a, b \in Range(mappers) : \E ta, tb \in Types \ check :
        /\ a # b
        /\ ta \in sig[0].args
        /\ mapperByOut(ta) = <<a>>
        /\ tb \in sig[a].args
        /\ mapperByOut(tb) = <<b>>
        /\ ta \in sig[b].args

(* The target requires two types, neither accepted, each with one producer,
   and both producers require a third type, not accepted, whose one
   producer requires nothing. *)
SharedProducerCase ==
    \E a, b, p \in Range(mappers) : \E ta, tb, tp \in Types \ check :
        /\ ta # tb
        /\ sig[0].args = {ta, tb}
        /\ mapperByOut(ta) = <<a>> /\ sig[a].args = {tp}
        /\ mapperByOut(tb) = <<b>> /\ sig[b].args = {tp}
        /\ mapperByOut(tp) = <<p>> /\ sig[p].args = {}

(* C16: ChainInputSet returns, and returns nil when no set of accepted types
   resolves the target: when a required type that is not accepted has no
   producer, or only producers that depend on each other.  Every visited
   mark is removed again, so a Func used on one branch is used again on an
   independent one. *)
C16_NilWithoutLeaves ==
    pc = "leafed" =>
        /\ leaf.visited = {}
        /\ ~LeafSetExists => leaf.nil
        /\ (\E t \in sig[0].args \ check : Len(mapperByOut(t)) = 0) => leaf.nil
        /\ CyclicLeafCase => leaf.nil
        /\ SharedProducerCase => ~leaf.nil /\ leaf.types = {}

C16_Witness ==
    /\ pc = "leafed"
    /\ leaf.nil
    /\ CyclicLeafCase
    /\ \A t \in sig[0].args \ check : Len(mapperByOut(t)) > 0

(* C19: every type of a non-nil result of ChainInputSet is accepted, and
   the result lists each type once.  The types are the accepted argument
   types of the target and of the Funcs of a resolution: a set of library
   Funcs that produces every argument type of the target and of its own
   members that is not accepted.  What a mapper accepted before it failed
   is not in the result. *)
C19_LeavesOfThePath ==
    pc = "leafed" /\ ~leaf.nil =>
        /\ leaf.types \subseteq check
        /\ Range(leaf.list) = leaf.types
        /\ \A i, j \in DOMAIN leaf.list : i # j => leaf.list[i] # leaf.list[j]
        /\ \E U \in SUBSET Range(mappers) :
              /\ \A f \in U \cup {0} : \A a \in sig[f].args \ check :
                    \E u \in U : sig[u].out = a
              /\ leaf.types = check \cap UNION {sig[f].args : f \in U \cup {0}}

(* The first mapper tried accepted a type and failed, a later one resolved
   the target, and the result does not have that type. *)
C19_Witness ==
    /\ pc = "leafed"
    /\ ~leaf.nil
    /\ Len(mappers) >= 2
    /\ LET m == mappers[1]
       IN /\ m # 0
          /\ sig[m].out \in sig[0].args \ check
          /\ inputSet(m, check, {m}, sig[0].args \cap check).nil
          /\ \E t \in sig[m].args \cap check : t \notin leaf.types

----------------------------------------------------------------------------
(* Properties of Chain.Call *)

(* C6: Chain.Call invokes the Funcs of the chain in chain order, each
   position once; at the first error it returns that error and a nil
   result and invokes nothing further; without an error it invokes them
   all. *)
C6_CallInOrder ==
    /\ Len(called) <= Len(c.funcs)
    /\ \A i \in DOMAIN called : called[i] = c.funcs[i]
    /\ pc = "call" => Len(called) = ci - 1 /\ callRet.kind = "none"
    /\ callRet.kind = "err" =>
          /\ pc = "returned"
          /\ callRet.result = 0
          /\ callRet.err = Len(called)
    /\ callRet.kind = "ok" => pc = "returned" /\ called = c.funcs

C6_Witness ==
    /\ callRet.kind = "err"
    /\ callRet.err = 2
    /\ Len(c.funcs) >= 3

(* The valid results among rs, in order. *)
NonVoid(rs) == SelectSeq(rs, LAMBDA r : r # 0)

(* C11 as stated: after a Chain.Call that returned an error, c.values is
   what it was when the Call began. *)
C11_PoolRestored ==
    pc = "returned" /\ callRet.kind = "err" => c.values = pool0

(* C11 as the code has it: a Chain.Call that returns an error returns a nil
   result, and c.values keeps what the Call appended: it is the values the
   Call began with followed by the valid results of the Funcs that ran
   before the failing one, in order. *)
C11_PoolKeepsResults ==
    pc = "returned" /\ callRet.kind = "err" =>
        /\ callRet.result = 0
        /\ Len(results) = callRet.err - 1
        /\ c.values = pool0 \o NonVoid(results)

C11_Witness ==
    /\ pc = "returned"
    /\ callRet.kind = "err"
    /\ Len(NonVoid(results)) = 2
    /\ c.values # pool0
    /\ pool0 # <<>>

(* C15: during Chain.Call c.values only grows by appends: the Func at
   position k is prepared with the values the Call began with followed by
   the valid results of the Funcs at positions 1..k-1, in order, and
   c.values is those values followed by all valid results so far. *)
C15_PoolGrows ==
    /\ Len(prepared) = Len(called)
    /\ \A k \in DOMAIN prepared :
          prepared[k] = pool0 \o NonVoid(SubSeq(results, 1, k - 1))
    /\ pc \in {"call", "returned"} =>
          /\ c.values = pool0 \o NonVoid(results)
          /\ Len(results) \in {Len(called) - 1, Len(called)}
          /\ \A k \in DOMAIN results : results[k] \in {0, sig[c.funcs[k]].out}

(* The chain [M1, M2, T] of T(1, 2), M1: () -> 1, M2: (1) -> 2: M2 was
   prepared with M1's result and T with both. *)
C15_Witness ==
    /\ pc = "returned"
    /\ callRet.kind = "ok"
    /\ Len(c.funcs) = 3
    /\ pool0 = <<>>
    /\ sig[c.funcs[3]].args = {1, 2}
    /\ sig[c.funcs[1]].args = {} /\ sig[c.funcs[1]].out = 1
    /\ sig[c.funcs[2]].args = {1} /\ sig[c.funcs[2]].out = 2
    /\ prepared[1] = <<>>
    /\ prepared[2] = <<1>>
    /\ prepared[3] = <<1, 2>>

(* The valid results of execution p, as values of a pool. *)
Appended(p, rs) == Tagged(NonVoid(rs), p)

(* Execution p ran as if alone: every Func was prepared with the values the
   Chain was built with followed by p's own valid results so far, and the
   Chain's values are those followed by all of p's valid results whose
   append is done. *)
Alone(p) ==
    LET me == call[p]
        done == IF me.at \in {"read", "write"}
                THEN SubSeq(me.results, 1, Len(me.results) - 1)
                ELSE me.results
    IN /\ \A k \in DOMAIN me.prepared :
             me.prepared[k] = Tagged(c.values, 0) \o Appended(p, SubSeq(me.results, 1, k - 1))
       /\ pools[me.on] = Tagged(c.values, 0) \o Appended(p, done)

(* C18: two executions of Chain.Call on distinct Chains, each with a values
   slice of its own, run as if alone.  On the same Chain they do not: see
   C18_Witness. *)
C18_DistinctChainsIsolated ==
    pc = "race" /\ call[1].on # call[2].on => Alone(1) /\ Alone(2)

(* Both executions ran on the same Chain and returned without an error; a
   Func of the first was prepared with a value a Func of the second
   returned, and the Chain's values lack a valid result: an append was
   lost. *)
C18_Witness ==
    /\ pc = "race"
    /\ call[1].on = call[2].on
    /\ call[1].ret = "ok" /\ call[2].ret = "ok"
    /\ \E k \in DOMAIN call[1].prepared : \E i \in DOMAIN call[1].prepared[k] :
          call[1].prepared[k][i].by = 2
    /\ Len(pools[1]) < Len(c.values) + Len(NonVoid(call[1].results))
                                     + Len(NonVoid(call[2].results))

----------------------------------------------------------------------------
(* Errors of Func.Chain *)

(* A type the target requires, that no value matches and no library Func
   produces. *)
Unproduced(t) ==
    t \in MissingArgs(target, values) /\ Len(mapperByOut(t)) = 0

(* C7 as stated: when a type the target requires has no producer and no
   value, Func.Chain fails with an error naming that type, whatever the
   target's other missing types are: the error never names a type that has
   a producer. *)
C7_NamesThatType ==
    pc = "built" /\ (\E t \in Types : Unproduced(t)) =>
        outcome.kind = "err" /\ Unproduced(outcome.err)

(* C7 as the code has it: Func.Chain fails, and the error names a missing
   argument type of the target none of whose producers was called: the
   first one, in the visiting order, that could not be resolved.  It is the
   unproduced type when that is the target's only missing type. *)
C7_NamesAMissingType ==
    pc = "built" =>
        \A t \in Types : Unproduced(t) =>
            /\ outcome.kind = "err"
            /\ c = NoChain
            /\ outcome.err \in MissingArgs(target, values)
            /\ \A m \in Range(mapperByOut(outcome.err)) : m \notin chainSet
            /\ MissingArgs(target, values) = {t} => outcome.err = t

C7_Witness ==
    /\ Failed
    /\ Unproduced(outcome.err)
    /\ \E t \in MissingArgs(target, values) : t # outcome.err /\ ~Unproduced(t)

(* C13 as stated: when Func.Chain fails, its error names the type of the
   first error an activation of the search made. *)
C13_FirstError ==
    Failed => outcome.err = firstErr.t

(* C13 as the code has it: when Func.Chain fails, its error names a missing
   argument type of the target: the one the outermost activation could not
   resolve.  The errors of the activations it called are dropped with their
   candidates, so the error is the first one made only when the outermost
   activation made it. *)
C13_NamesTargetType ==
    Failed =>
        /\ firstErr # NoErr
        /\ outcome.err \in MissingArgs(target, values)
        /\ firstErr.depth = 1 => outcome.err = firstErr.t
        /\ \A r \in commits : r.f = target => r.t # outcome.err

C13_Witness ==
    /\ Failed
    /\ firstErr.depth = 3
    /\ firstErr.t # outcome.err
    /\ firstErr.t \notin MissingArgs(target, values)

----------------------------------------------------------------------------
(* The bookkeeping of the search *)

(* C12: during the search chainSet is the set of the Funcs of the chain
   built so far (the chain the innermost activation holds), and the chain
   Func.chain returns has all its Funcs in chainSet. *)
C12_ResolvedIsChain ==
    /\ pc = "search" => chainSet = Range(Top.chain)
    /\ Built /\ Len(outcome.funcs) > 1 => chainSet = Range(outcome.funcs)

(* C14: pendingSet is the set of the Funcs of the active activations, each
   of which has missing arguments and is there once; it is empty when
   Func.Chain has returned. *)
C14_PendingIsPath ==
    /\ pendingSet = {stack[i].f : i \in DOMAIN stack}
    /\ \A i, j \in DOMAIN stack : i # j => stack[i].f # stack[j].f
    /\ \A i \in DOMAIN stack : MissingArgs(stack[i].f, values) # {}
    /\ pc = "built" => pendingSet = {} /\ stack = <<>>

(* The inner loop of the third nested activation is at a mapper that is
   pending, after an activation has failed and unmarked itself. *)
C14_Witness ==
    /\ pc = "search"
    /\ Len(stack) = 3
    /\ Top.t # 0
    /\ Top.j <= Len(mapperByOut(Top.t))
    /\ mapperByOut(Top.t)[Top.j] \in pendingSet
    /\ firstErr # NoErr

(* Position of a library entry in the library. *)
Pos(m) == CHOOSE i \in DOMAIN mappers : mappers[i] = m

(* C17: the mappers the inner loop passes for a missing type t are producers
   of t in increasing library position, each passed because it was pending
   or because its resolution failed; the mapper that satisfies t comes after
   them, and every producer of t before it in the library was passed.  Once
   t is satisfied the activation tries no further mapper for it. *)
C17_LibraryOrder ==
    /\ Len(tried) = Len(stack)
    /\ \A i \in DOMAIN stack :
          /\ stack[i].t = 0 => tried[i] = <<>>
          /\ stack[i].t \notin stack[i].todo
          /\ \A k \in DOMAIN tried[i] :
                /\ sig[tried[i][k].m].out = stack[i].t
                /\ k > 1 => Pos(tried[i][k - 1].m) < Pos(tried[i][k].m)
    /\ \A r \in commits :
          /\ r.t \in MissingArgs(r.f, values)
          /\ sig[r.m].out = r.t
          /\ \A k \in DOMAIN r.before :
                /\ sig[r.before[k].m].out = r.t
                /\ r.before[k].why \in {"pending", "failed"}
                /\ Pos(r.before[k].m) < Pos(r.m)
                /\ k > 1 => Pos(r.before[k - 1].m) < Pos(r.before[k].m)
          /\ \A p \in Range(mappers) :
                sig[p].out = r.t /\ Pos(p) < Pos(r.m) =>
                    \E k \in DOMAIN r.before : r.before[k].m = p
    /\ Built => \A i \in 1..(Len(outcome.funcs) - 1) :
                    \E r \in commits : r.m = outcome.funcs[i]

(* A type was satisfied by its second producer after the first failed, and
   a third producer of it was never called. *)
C17_Witness ==
    /\ Built
    /\ \E r \in commits :
          /\ Len(r.before) = 1
          /\ r.before[1].why = "failed"
          /\ r.m \in Range(outcome.funcs)
          /\ \E p \in Range(mappers) :
                /\ sig[p].out = r.t
                /\ Pos(p) > Pos(r.m)
                /\ \A q \in commits : q.m # p /\ \A k \in DOMAIN q.before : q.before[k].m # p

----------------------------------------------------------------------------
(* ChainTarget *)

Accepted == SelectSeq(mappers, LAMBDA m : sig[m].out \in check)

(* C8: ChainTarget calls m.Chain on the entries the predicate accepts, in
   library order, until one succeeds.  It returns nil exactly when every
   accepted entry was tried and none resolved; otherwise it returns the
   chain built for the first accepted entry that resolved. *)
C8_FirstResolving ==
    pc = "done" =>
        /\ Len(attempts) <= Len(Accepted)
        /\ \A i \in DOMAIN attempts :
              /\ attempts[i].m = Accepted[i]
              /\ i < Len(attempts) => ~attempts[i].ok
        /\ found.kind \in {"nil", "chain"}
        /\ found.kind = "nil" <=>
              /\ Len(attempts) = Len(Accepted)
              /\ \A i \in DOMAIN attempts : ~attempts[i].ok
        /\ found.kind = "chain" =>
              /\ attempts # <<>>
              /\ attempts[Len(attempts)].ok
              /\ target = attempts[Len(attempts)].m
              /\ outcome.kind = "chain"
              /\ found.funcs = outcome.funcs
              /\ found.values = Augmented(target, input)

C8_Witness ==
    /\ pc = "done"
    /\ found.kind = "chain"
    /\ Len(attempts) = 2
    /\ Len(Accepted) = 3
    /\ Len(found.funcs) >= 2

----------------------------------------------------------------------------
(* The target in the chain *)

(* C9: when the values and the target's bound values match every argument
   of the target, Func.Chain returns the chain of the target alone, over
   the augmented values, whatever the library is, and never starts the
   search. *)
C9_SatisfiedByInputs ==
    MissingArgs(0, Augmented(0, input)) = {} =>
        /\ pc # "search"
        /\ pc = "built" =>
              /\ outcome = [kind |-> "chain", funcs |-> <<0>>, err |-> 0]
              /\ c = [funcs |-> <<0>>, values |-> Augmented(0, input)]
              /\ chainSet = {}

C9_Witness ==
    /\ Built
    /\ sig[0].args = {1, 2}
    /\ sig[0].vals # <<>>
    /\ input # <<>>
    /\ \E a, b \in Range(mappers) :
          a # b /\ sig[a].out \in sig[b].args /\ sig[b].out \in sig[a].args

(* C10: in a chain Func.Chain returns the target is the last element and
   occurs nowhere else, so Chain.Out is the target's output type. *)
C10_TargetLast ==
    Built =>
        /\ c.funcs = outcome.funcs
        /\ c.funcs[Len(c.funcs)] = target
        /\ \A i \in 1..(Len(c.funcs) - 1) : c.funcs[i] # target
        /\ Out(c) = sig[target].out

C10_Witness ==
    /\ Built
    /\ target \in Range(mappers)
    /\ Len(c.funcs) >= 3
    /\ \E i \in 1..(Len(c.funcs) - 1) : sig[c.funcs[i]].out # sig[target].out

====
